---- MODULE Spec2Model ----
(***************************************************************************)
(* Containment and area predicates of the geo crate                        *)
(* (src/algorithm/contains.rs, src/algorithm/area.rs).                     *)
(*                                                                         *)
(* Numbers.  The code is generic over T: Float.  The model computes with   *)
(* exact numbers: coordinates are integers and a computed value is the     *)
(* exact rational <<n, d>> (d > 0, lowest terms).  On the small integer    *)
(* coordinates used here every product and sum of the code is exact in     *)
(* f32/f64 and the only division, the one of get_position, is compared     *)
(* with an integer only, so the code's comparisons agree with the exact    *)
(* ones.  The one Float value that no exact number models, NaN, is added   *)
(* where a claim is about the order itself (the Bbox comparisons).         *)
(*                                                                         *)
(* Geometry values.  Point: <<x, y>>.  Line: [start, end].  LineString: a  *)
(* sequence of Points.  Polygon: [exterior, interiors].  MultiPolygon: a   *)
(* sequence of Polygons.  Bbox: [xmin, xmax, ymin, ymax].                  *)
(***************************************************************************)
EXTENDS Integers, Sequences, FiniteSets, TLC

VARIABLES self, rhs, intersects, op, pc, ret

vars == <<self, rhs, intersects, op, pc, ret>>

\* The value of a variable an operation does not use.
None == "none"

(***************************************************************************)
(* Bounds of the model.                                                    *)
(***************************************************************************)
\* Ring and path vertices lie on the lattice {0, 2, .., 2*MaxCoord}^2, query
\* points on {0, 1, .., 2*MaxCoord}^2, so that the midpoint of every edge
\* is a query point.
MaxCoord == 2

\* Path scan: path vertices lie on {0..MaxWalk} x {0, 1}, the query segment
\* on the row y = 0, and a path has at most MaxPathLen vertices.
MaxWalk == 2

MaxPathLen == 4

\* The bounds of a Bbox are 0..MaxBox or NaN.
MaxBox == 2

(***************************************************************************)
(* Exact arithmetic.                                                       *)
(***************************************************************************)
Abs(n) == IF n < 0 THEN -n ELSE n

Min(a, b) == IF a <= b THEN a ELSE b

Max(a, b) == IF a >= b THEN a ELSE b

RECURSIVE Gcd(_, _)
Gcd(a, b) == IF b = 0 THEN a ELSE Gcd(b, a % b)

\* The rational n/d (d # 0) in lowest terms with a positive denominator.
Rat(n, d) ==
    LET g == Gcd(Abs(n), Abs(d))
        s == IF d < 0 THEN -1 ELSE 1
    IN  <<(s * n) \div g, (s * d) \div g>>

RatOfInt(n) == <<n, 1>>

RatAdd(a, b) == Rat(a[1] * b[2] + b[1] * a[2], a[2] * b[2])

RatSub(a, b) == Rat(a[1] * b[2] - b[1] * a[2], a[2] * b[2])

RatLeq(a, b) == a[1] * b[2] <= b[1] * a[2]

(***************************************************************************)
(* Points and segments.                                                    *)
(***************************************************************************)
X(p) == p[1]

Y(p) == p[2]

\* Twice the signed area of the triangle a, b, c: 0 iff they are collinear.
Cross(a, b, c) == (X(b) - X(a)) * (Y(c) - Y(a)) - (X(c) - X(a)) * (Y(b) - Y(a))

\* p lies on the closed segment from a to b (the geometric fact).
OnSegment(p, a, b) ==
    /\ Cross(a, b, p) = 0
    /\ Min(X(a), X(b)) <= X(p) /\ X(p) <= Max(X(a), X(b))
    /\ Min(Y(a), Y(b)) <= Y(p) /\ Y(p) <= Max(Y(a), Y(b))

\* The consecutive pairs of a sequence, as slice::windows(2) yields them.
Windows(vect) == IF Len(vect) < 2 THEN {} ELSE 1..(Len(vect) - 1)

(***************************************************************************)
(* contains.rs: LineString contains Point.                                 *)
(***************************************************************************)
LineString_contains_Point(ls, p) ==
    \/ \E k \in 1..Len(ls) : ls[k] = p
    \/ \E k \in Windows(ls) :
          LET ps0 == ls[k]
              ps1 == ls[k + 1]
          IN  \/ /\ Y(ps0) = Y(ps1)
                 /\ Y(ps0) = Y(p)
                 /\ X(p) > Min(X(ps0), X(ps1))
                 /\ X(p) < Max(X(ps0), X(ps1))
              \/ /\ X(ps0) = X(ps1)
                 /\ X(ps0) = X(p)
                 /\ Y(p) > Min(Y(ps0), Y(ps1))
                 /\ Y(p) < Max(Y(ps0), Y(ps1))

(***************************************************************************)
(* contains.rs: Line contains Point, Line contains Line.                   *)
(***************************************************************************)
Line(a, b) == [start |-> a, end |-> b]

\* Intersects<Point<T>> for Line<T> is not part of these sources: p lies on
\* the line through the segment and within the segment's bounds.
Line_intersects_Point(line, p) == OnSegment(p, line.start, line.end)

Line_contains_Point(line, p) == Line_intersects_Point(line, p)

Line_contains_Line(line, other) ==
    Line_contains_Point(line, other.start) /\ Line_contains_Point(line, other.end)

(***************************************************************************)
(* contains.rs: LineString contains Line, the path scan.                   *)
(* An Option<Point> is <<>> (None) or <<p>> (Some(p)).                     *)
(***************************************************************************)
\* WalkStep that starts a match at line.start only.
WalkStep_StartOnly(l0, l1, line, lf) ==
    LET segment == Line(l0, l1)
        lf1 == IF lf = <<>>
               THEN IF Line_contains_Point(segment, line.start)
                    THEN <<line.end>>
                    ELSE <<>>
               ELSE lf
    IN  IF lf1 # <<>>
        THEN IF Line_contains_Point(segment, lf1[1])
             THEN [done |-> TRUE, look_for |-> lf1]
             ELSE IF ~Line_contains_Point(line, segment.end)
             THEN [done |-> FALSE, look_for |-> <<>>]
             ELSE [done |-> FALSE, look_for |-> lf1]
        ELSE [done |-> FALSE, look_for |-> lf1]

\* WalkStep that never abandons look_for.
WalkStep_NoReset(l0, l1, line, lf) ==
    LET segment == Line(l0, l1)
        lf1 == IF lf = <<>>
               THEN IF Line_contains_Point(segment, line.start)
                    THEN <<line.end>>
                    ELSE IF Line_contains_Point(segment, line.end)
                    THEN <<line.start>>
                    ELSE <<>>
               ELSE lf
    IN  IF lf1 # <<>>
        THEN IF Line_contains_Point(segment, lf1[1])
             THEN [done |-> TRUE, look_for |-> lf1]
             ELSE [done |-> FALSE, look_for |-> lf1]
        ELSE [done |-> FALSE, look_for |-> lf1]

\* WalkStep that abandons look_for by the segment's start, not its end.
WalkStep_ResetByStart(l0, l1, line, lf) ==
    LET segment == Line(l0, l1)
        lf1 == IF lf = <<>>
               THEN IF Line_contains_Point(segment, line.start)
                    THEN <<line.end>>
                    ELSE IF Line_contains_Point(segment, line.end)
                    THEN <<line.start>>
                    ELSE <<>>
               ELSE lf
    IN  IF lf1 # <<>>
        THEN IF Line_contains_Point(segment, lf1[1])
             THEN [done |-> TRUE, look_for |-> lf1]
             ELSE IF ~Line_contains_Point(line, segment.start)
             THEN [done |-> FALSE, look_for |-> <<>>]
             ELSE [done |-> FALSE, look_for |-> lf1]
        ELSE [done |-> FALSE, look_for |-> lf1]

\* One iteration of the loop over self.points().windows(2), entered with
\* look_for = lf: done when the iteration returns true, else the look_for
\* the next iteration starts with.
WalkStep(l0, l1, line, lf) ==
    LET segment == Line(l0, l1)
        lf1 == IF lf = <<>>
               THEN IF Line_contains_Point(segment, line.start)
                    THEN <<line.end>>
                    ELSE IF Line_contains_Point(segment, line.end)
                    THEN <<line.start>>
                    ELSE <<>>
               ELSE lf
    IN  IF lf1 # <<>>
        THEN IF Line_contains_Point(segment, lf1[1])
             THEN [done |-> TRUE, look_for |-> lf1]
             ELSE IF ~Line_contains_Point(line, segment.end)
             THEN [done |-> FALSE, look_for |-> <<>>]
             ELSE [done |-> FALSE, look_for |-> lf1]
        ELSE [done |-> FALSE, look_for |-> lf1]

RECURSIVE WalkLoop(_, _, _, _)
WalkLoop(ls, line, k, lf) ==
    IF k >= Len(ls)
    THEN FALSE
    ELSE LET st == WalkStep(ls[k], ls[k + 1], line, lf)
         IN  IF st.done THEN TRUE ELSE WalkLoop(ls, line, k + 1, st.look_for)

LineString_contains_Line(ls, line) == WalkLoop(ls, line, 1, <<>>)

(***************************************************************************)
(* contains.rs: get_position, the ray casting loop.                        *)
(***************************************************************************)
\* RayReach with p.y < max(ps0.y, ps1.y) in the place of p.y <= max.
RayReach_Open(p, ps0, ps1) ==
    /\ Y(p) > Min(Y(ps0), Y(ps1))
    /\ Y(p) < Max(Y(ps0), Y(ps1))
    /\ X(p) <= Max(X(ps0), X(ps1))

\* RayReach with p.y >= min(ps0.y, ps1.y) in the place of p.y > min.
RayReach_Closed(p, ps0, ps1) ==
    /\ Y(p) >= Min(Y(ps0), Y(ps1))
    /\ Y(p) <= Max(Y(ps0), Y(ps1))
    /\ X(p) <= Max(X(ps0), X(ps1))

\* The three nested conditions of the loop body: the iteration reaches the
\* assignment of xints and the test p.x <= xints.
RayReach(p, ps0, ps1) ==
    /\ Y(p) > Min(Y(ps0), Y(ps1))
    /\ Y(p) <= Max(Y(ps0), Y(ps1))
    /\ X(p) <= Max(X(ps0), X(ps1))

\* RayStep without the test p.x <= max(ps0.x, ps1.x).
RayStep_NoXBound(p, ps0, ps1, st) ==
    IF /\ Y(p) > Min(Y(ps0), Y(ps1))
       /\ Y(p) <= Max(Y(ps0), Y(ps1))
    THEN LET xi == IF Y(ps0) # Y(ps1)
                   THEN RatAdd(Rat((Y(p) - Y(ps0)) * (X(ps1) - X(ps0)),
                                   Y(ps1) - Y(ps0)),
                               RatOfInt(X(ps0)))
                   ELSE st.xints
         IN  [xints |-> xi,
              crossings |-> IF X(ps0) = X(ps1) \/ RatLeq(RatOfInt(X(p)), xi)
                            THEN st.crossings + 1
                            ELSE st.crossings]
    ELSE st

\* One iteration of the loop over vect.windows(2): st holds the locals
\* xints and crossings, which live across iterations.
RayStep(p, ps0, ps1, st) ==
    IF RayReach(p, ps0, ps1)
    THEN LET xi == IF Y(ps0) # Y(ps1)
                   THEN RatAdd(Rat((Y(p) - Y(ps0)) * (X(ps1) - X(ps0)),
                                   Y(ps1) - Y(ps0)),
                               RatOfInt(X(ps0)))
                   ELSE st.xints
         IN  [xints |-> xi,
              crossings |-> IF X(ps0) = X(ps1) \/ RatLeq(RatOfInt(X(p)), xi)
                            THEN st.crossings + 1
                            ELSE st.crossings]
    ELSE st

RECURSIVE RayLoop(_, _, _, _)
RayLoop(p, vect, k, st) ==
    IF k >= Len(vect)
    THEN st
    ELSE RayLoop(p, vect, k + 1, RayStep(p, vect[k], vect[k + 1], st))

\* The locals before the first iteration.
RayStart == [xints |-> RatOfInt(0), crossings |-> 0]

\* The loop seen iteration by iteration: for the k-th pair of points,
\* whether the iteration reaches the test on xints, and the locals before
\* and after it.
RayTrace(p, vect) ==
    [k \in 1..(Len(vect) - 1) |->
        [reached |-> RayReach(p, vect[k], vect[k + 1]),
         before |-> RayLoop(p, SubSeq(vect, 1, k), 1, RayStart),
         after |-> RayLoop(p, SubSeq(vect, 1, k + 1), 1, RayStart)]]

get_position(p, linestring) ==
    IF Len(linestring) = 0
    THEN "Outside"
    ELSE IF LineString_contains_Point(linestring, p)
    THEN "OnBoundary"
    ELSE LET st == RayLoop(p, linestring, 1, RayStart)
         IN  IF st.crossings % 2 = 1 THEN "Inside" ELSE "Outside"

(***************************************************************************)
(* contains.rs: Polygon contains Point.                                    *)
(***************************************************************************)
Polygon_contains_Point(poly, p) ==
    LET pos == get_position(p, poly.exterior)
    IN  IF pos = "OnBoundary" \/ pos = "Outside"
        THEN FALSE
        ELSE \A k \in 1..Len(poly.interiors) :
                get_position(p, poly.interiors[k]) = "Outside"

(***************************************************************************)
(* contains.rs: MultiPolygon contains Point.                               *)
(***************************************************************************)
\* MultiPolygon_contains_Point with all() in the place of any().
MultiPolygon_contains_Point_All(mpoly, p) ==
    \A k \in 1..Len(mpoly.polygons) :
        Polygon_contains_Point(mpoly.polygons[k], p)

\* Iterator::any over the members from the k-th on: it stops at the first
\* member that contains p.
RECURSIVE AnyLoop(_, _, _)
AnyLoop(polys, k, p) ==
    IF k > Len(polys)
    THEN FALSE
    ELSE IF Polygon_contains_Point(polys[k], p)
    THEN TRUE
    ELSE AnyLoop(polys, k + 1, p)

MultiPolygon_contains_Point(mpoly, p) == AnyLoop(mpoly.polygons, 1, p)

(***************************************************************************)
(* contains.rs: Polygon contains Line, Polygon contains LineString.        *)
(* The Intersects tests are not part of these sources: their answers are   *)
(* inputs.  hitExt is the answer of self.exterior.intersects(line),        *)
(* hitInt[k] that of the k-th interior ring, hit that of                   *)
(* self.intersects(linestring).                                            *)
(***************************************************************************)
Polygon_contains_Line(poly, line, hitExt, hitInt) ==
    /\ Polygon_contains_Point(poly, line.start)
    /\ Polygon_contains_Point(poly, line.end)
    /\ ~hitExt
    /\ ~(\E k \in 1..Len(poly.interiors) : hitInt[k])

Polygon_contains_LineString(poly, linestring, hit) ==
    IF \A k \in 1..Len(linestring) : Polygon_contains_Point(poly, linestring[k])
    THEN ~hit
    ELSE FALSE

(***************************************************************************)
(* contains.rs: Bbox contains Point, Bbox contains Bbox; area.rs: Bbox     *)
(* area.  A bound of a Bbox is a Float: [nan |-> FALSE, v |-> n] is the    *)
(* number n and NaN is the Float that compares false with every Float.     *)
(***************************************************************************)
Num(n) == [nan |-> FALSE, v |-> n]

NaN == [nan |-> TRUE, v |-> 0]

FLe(a, b) == ~a.nan /\ ~b.nan /\ a.v <= b.v

FGe(a, b) == ~a.nan /\ ~b.nan /\ a.v >= b.v

FSub(a, b) == IF a.nan \/ b.nan THEN NaN ELSE Num(a.v - b.v)

FMul(a, b) == IF a.nan \/ b.nan THEN NaN ELSE Num(a.v * b.v)

Bbox_contains_Point(bbox, p) ==
    /\ FGe(X(p), bbox.xmin)
    /\ FLe(X(p), bbox.xmax)
    /\ FGe(Y(p), bbox.ymin)
    /\ FLe(Y(p), bbox.ymax)

\* Bbox_contains_Bbox with a strict test of xmin.
Bbox_contains_Bbox_Strict(bbox, other) ==
    /\ ~FGe(bbox.xmin, other.xmin) /\ FLe(bbox.xmin, other.xmin)
    /\ FGe(bbox.xmax, other.xmax)
    /\ FLe(bbox.ymin, other.ymin)
    /\ FGe(bbox.ymax, other.ymax)

Bbox_contains_Bbox(bbox, other) ==
    /\ FLe(bbox.xmin, other.xmin)
    /\ FGe(bbox.xmax, other.xmax)
    /\ FLe(bbox.ymin, other.ymin)
    /\ FGe(bbox.ymax, other.ymax)

Bbox_area(bbox) == FMul(FSub(bbox.xmax, bbox.xmin), FSub(bbox.ymax, bbox.ymin))

(***************************************************************************)
(* area.rs: the shoelace sum, Polygon and MultiPolygon area.               *)
(***************************************************************************)
RECURSIVE ShoelaceLoop(_, _, _)
ShoelaceLoop(vect, k, tmp) ==
    IF k >= Len(vect)
    THEN tmp
    ELSE ShoelaceLoop(vect, k + 1,
                      tmp + (X(vect[k]) * Y(vect[k + 1]) - X(vect[k + 1]) * Y(vect[k])))

\* get_linestring_area that closes the ring with an edge from the last
\* point to the first.
get_linestring_area_Closing(linestring) ==
    IF Len(linestring) = 0 \/ Len(linestring) = 1
    THEN RatOfInt(0)
    ELSE Rat(ShoelaceLoop(Append(linestring, linestring[1]), 1, 0), 1 + 1)

get_linestring_area(linestring) ==
    IF Len(linestring) = 0 \/ Len(linestring) = 1
    THEN RatOfInt(0)
    ELSE Rat(ShoelaceLoop(linestring, 1, 0), 1 + 1)

\* PolygonAreaFold that adds the area of each interior ring.
RECURSIVE PolygonAreaFold_Add(_, _, _)
PolygonAreaFold_Add(interiors, k, total) ==
    IF k > Len(interiors)
    THEN total
    ELSE PolygonAreaFold_Add(interiors, k + 1,
                             RatAdd(total, get_linestring_area(interiors[k])))

RECURSIVE PolygonAreaFold(_, _, _)
PolygonAreaFold(interiors, k, total) ==
    IF k > Len(interiors)
    THEN total
    ELSE PolygonAreaFold(interiors, k + 1,
                         RatSub(total, get_linestring_area(interiors[k])))

Polygon_area(poly) ==
    PolygonAreaFold(poly.interiors, 1, get_linestring_area(poly.exterior))

\* MultiPolygonAreaFold that subtracts each member's area.
RECURSIVE MultiPolygonAreaFold_Sub(_, _, _)
MultiPolygonAreaFold_Sub(polys, k, total) ==
    IF k > Len(polys)
    THEN total
    ELSE MultiPolygonAreaFold_Sub(polys, k + 1,
                                  RatSub(total, Polygon_area(polys[k])))

RECURSIVE MultiPolygonAreaFold(_, _, _)
MultiPolygonAreaFold(polys, k, total) ==
    IF k > Len(polys)
    THEN total
    ELSE MultiPolygonAreaFold(polys, k + 1, RatAdd(total, Polygon_area(polys[k])))

MultiPolygon_area(mpoly) == MultiPolygonAreaFold(mpoly.polygons, 1, RatOfInt(0))

(***************************************************************************)
(* The inputs of the model.                                                *)
(***************************************************************************)
VertexCoords == {2 * k : k \in 0..MaxCoord}

Vertices == VertexCoords \X VertexCoords

PointCoords == 0..(2 * MaxCoord)

Points == PointCoords \X PointCoords

\* Closed three-vertex rings, degenerate ones included.
Triangles == {<<a, b, c, a>> : a \in Vertices, b \in Vertices, c \in Vertices}

\* The closed ring of the axis-aligned rectangle [x0, x1] x [y0, y1], wound
\* counter-clockwise (ccw) or clockwise, starting at corner number start.
RectRing(x0, x1, y0, y1, ccw, start) ==
    LET c == IF ccw
             THEN <<<<x0, y0>>, <<x1, y0>>, <<x1, y1>>, <<x0, y1>>>>
             ELSE <<<<x0, y0>>, <<x0, y1>>, <<x1, y1>>, <<x1, y0>>>>
        at(k) == c[((start + k) % 4) + 1]
    IN  <<at(0), at(1), at(2), at(3), at(0)>>

\* The boxes xmin < xmax, ymin < ymax with corners on the lattice.
Boxes ==
    {b \in [xmin : VertexCoords, xmax : VertexCoords,
            ymin : VertexCoords, ymax : VertexCoords] :
        b.xmin < b.xmax /\ b.ymin < b.ymax}

\* Every closed rectangle ring: both windings, every starting corner.
Rects ==
    {RectRing(b.xmin, b.xmax, b.ymin, b.ymax, ccw, start) :
        b \in Boxes, ccw \in BOOLEAN, start \in 0..3}

\* Empty, single-point and open two-point paths.
ShortPaths ==
    {<<>>} \cup {<<a>> : a \in Vertices}
           \cup {<<a, b>> : a \in Vertices, b \in Vertices}

Rings == Triangles \cup Rects \cup ShortPaths

\* The counter-clockwise rectangle around the whole lattice: every query
\* point is strictly inside it.
Frame == RectRing(-1, 2 * MaxCoord + 1, -1, 2 * MaxCoord + 1, TRUE, 0)

\* Counter-clockwise rectangles starting at their lower left corner.
PlainRects ==
    {RectRing(b.xmin, b.xmax, b.ymin, b.ymax, TRUE, 0) : b \in Boxes}

Polygon(ext, ints) == [exterior |-> ext, interiors |-> ints]

Polys ==
    {Polygon(e, <<>>) : e \in Rings}
        \cup {Polygon(Frame, <<h>>) : h \in Rings}
        \cup {Polygon(Frame, <<h1, h2>>) : h1 \in PlainRects, h2 \in PlainRects}

(***************************************************************************)
(* Spec: a Polygon is asked whether it contains a Point.                   *)
(***************************************************************************)
Init ==
    /\ self \in Polys
    /\ rhs = None
    /\ intersects = None
    /\ op = None
    /\ pc = "idle"
    /\ ret = None

ContainsPoint ==
    /\ pc = "idle"
    /\ \E p \in Points :
          /\ rhs' = p
          /\ ret' = Polygon_contains_Point(self, p)
    /\ op' = "contains_Point"
    /\ pc' = "done"
    /\ UNCHANGED <<self, intersects>>

Next == ContainsPoint

Spec == Init /\ [][Next]_vars

(***************************************************************************)
(* SpecWalk: a LineString is asked whether it contains a Line.             *)
(***************************************************************************)
WalkPts == (0..MaxWalk) \X {0, 1}

RECURSIVE PathsOfLen(_)
PathsOfLen(n) ==
    IF n = 0
    THEN {<<>>}
    ELSE {Append(q, v) : q \in PathsOfLen(n - 1), v \in WalkPts}

Paths == UNION {PathsOfLen(n) : n \in 0..MaxPathLen}

QueryLines == {Line(<<a, 0>>, <<b, 0>>) : a \in 0..MaxWalk, b \in 0..MaxWalk}

InitWalk ==
    /\ self \in Paths
    /\ rhs = None
    /\ intersects = None
    /\ op = None
    /\ pc = "idle"
    /\ ret = None

LineStringContainsLine ==
    /\ pc = "idle"
    /\ \E line \in QueryLines :
          /\ rhs' = line
          /\ ret' = LineString_contains_Line(self, line)
    /\ op' = "contains_Line"
    /\ pc' = "done"
    /\ UNCHANGED <<self, intersects>>

NextWalk == LineStringContainsLine

SpecWalk == InitWalk /\ [][NextWalk]_vars

(***************************************************************************)
(* SpecScan: a LineString of up to three segments is asked whether it      *)
(* contains a Line of any direction.                                       *)
(***************************************************************************)
ScanPaths ==
    {<<>>} \cup {<<a>> : a \in WalkPts}
           \cup {<<a, b>> : a \in WalkPts, b \in WalkPts}
           \cup {<<a, b, c>> : a \in WalkPts, b \in WalkPts, c \in WalkPts}
           \cup {<<a, b, c, d>> : a \in WalkPts, b \in WalkPts,
                                  c \in WalkPts, d \in WalkPts}

ScanLines == {Line(a, b) : a \in WalkPts, b \in WalkPts}

InitScan ==
    /\ self \in ScanPaths
    /\ rhs = None
    /\ intersects = None
    /\ op = None
    /\ pc = "idle"
    /\ ret = None

ScanContainsLine ==
    /\ pc = "idle"
    /\ \E line \in ScanLines :
          /\ rhs' = line
          /\ ret' = LineString_contains_Line(self, line)
    /\ op' = "contains_Line"
    /\ pc' = "done"
    /\ UNCHANGED <<self, intersects>>

NextScan == ScanContainsLine

SpecScan == InitScan /\ [][NextScan]_vars

(***************************************************************************)
(* SpecSeg: a Polygon is asked whether it contains a Line or a LineString. *)
(***************************************************************************)
RingsAtOrigin == {r \in Rings : Len(r) = 0 \/ (Len(r) > 0 /\ r[1] = <<0, 0>>)}

SegPolys ==
    {Polygon(e, <<>>) : e \in RingsAtOrigin}
        \cup {Polygon(Frame, <<h>>) : h \in RingsAtOrigin}
        \cup {Polygon(Frame, <<h1, h2>>) :
                 h1 \in PlainRects \cap RingsAtOrigin, h2 \in PlainRects \cap RingsAtOrigin}

\* The query points on the diagonal x = y.
SegPts == {<<k, k>> : k \in PointCoords}

SegPaths ==
    {<<>>} \cup {<<a>> : a \in SegPts}
           \cup {<<a, b>> : a \in SegPts, b \in SegPts}
           \cup {<<a, b, c>> : a \in SegPts, b \in SegPts, c \in SegPts}

InitSeg ==
    /\ self \in SegPolys
    /\ rhs = None
    /\ intersects = None
    /\ op = None
    /\ pc = "idle"
    /\ ret = None

ContainsLine ==
    /\ pc = "idle"
    /\ \E a \in SegPts, b \in SegPts, hitExt \in BOOLEAN,
          hitInt \in [1..Len(self.interiors) -> BOOLEAN] :
          /\ rhs' = Line(a, b)
          /\ intersects' = [exterior |-> hitExt, interiors |-> hitInt]
          /\ ret' = Polygon_contains_Line(self, Line(a, b), hitExt, hitInt)
    /\ op' = "contains_Line"
    /\ pc' = "done"
    /\ UNCHANGED self

ContainsLineString ==
    /\ pc = "idle"
    /\ \E ls \in SegPaths, hit \in BOOLEAN :
          /\ rhs' = ls
          /\ intersects' = [polygon |-> hit]
          /\ ret' = Polygon_contains_LineString(self, ls, hit)
    /\ op' = "contains_LineString"
    /\ pc' = "done"
    /\ UNCHANGED self

NextSeg == ContainsLine \/ ContainsLineString

SpecSeg == InitSeg /\ [][NextSeg]_vars

(***************************************************************************)
(* SpecArea: the area of a Polygon, of a MultiPolygon and of a geometry    *)
(* that implements PolygonTrait.                                           *)
(***************************************************************************)
\* The polygons of area.rs's tests: the 5 x 6 rectangle and the 10 x 10
\* square with two unit holes.
TestRect == Polygon(<<<<0, 0>>, <<5, 0>>, <<5, 6>>, <<0, 6>>, <<0, 0>>>>, <<>>)

TestInner ==
    Polygon(<<<<0, 0>>, <<10, 0>>, <<10, 10>>, <<0, 10>>, <<0, 0>>>>,
            << <<<<1, 1>>, <<2, 1>>, <<2, 2>>, <<1, 2>>, <<1, 1>>>>,
               <<<<5, 5>>, <<6, 5>>, <<6, 6>>, <<5, 6>>, <<5, 5>>>> >>)

AreaPolys == Polys \cup {TestRect, TestInner}

MultiPolygon(polys) == [polygons |-> polys]

MemberPolys == {Polygon(e, <<>>) : e \in PlainRects} \cup {TestInner}

\* The members of area.rs's collection test (areas 100, 1 and 1) and the
\* square with two holes.
TestMembers ==
    {Polygon(<<<<0, 0>>, <<10, 0>>, <<10, 10>>, <<0, 10>>, <<0, 0>>>>, <<>>),
     Polygon(<<<<1, 1>>, <<2, 1>>, <<2, 2>>, <<1, 2>>, <<1, 1>>>>, <<>>),
     Polygon(<<<<5, 5>>, <<6, 5>>, <<6, 6>>, <<5, 6>>, <<5, 5>>>>, <<>>),
     TestInner}

MultiPolys ==
    {MultiPolygon(<<>>)}
        \cup {MultiPolygon(<<a>>) : a \in MemberPolys}
        \cup {MultiPolygon(<<a, b>>) : a \in MemberPolys, b \in MemberPolys}
        \cup {MultiPolygon(<<a, b, c>>) :
                 a \in TestMembers, b \in TestMembers, c \in TestMembers}

\* A geometry of another crate that implements PolygonTrait: its rings.
TraitPolys == {[rings |-> <<>>]} \cup {[rings |-> <<e>>] : e \in PlainRects}

IsPolygon(g) == "exterior" \in DOMAIN g

IsMultiPolygon(g) == "polygons" \in DOMAIN g

IsTraitPolygon(g) == "rings" \in DOMAIN g

InitArea ==
    /\ self \in AreaPolys \cup MultiPolys \cup TraitPolys
    /\ rhs = None
    /\ intersects = None
    /\ op = None
    /\ pc = "idle"
    /\ ret = None

PolygonArea ==
    /\ pc = "idle"
    /\ IsPolygon(self)
    /\ ret' = Polygon_area(self)
    /\ op' = "area"
    /\ pc' = "done"
    /\ UNCHANGED <<self, rhs, intersects>>

MultiPolygonArea ==
    /\ pc = "idle"
    /\ IsMultiPolygon(self)
    /\ ret' = MultiPolygon_area(self)
    /\ op' = "area"
    /\ pc' = "done"
    /\ UNCHANGED <<self, rhs, intersects>>

\* Area<T> for G: PolygonTrait is unimplemented!(): the call panics.
TraitArea ==
    /\ pc = "idle"
    /\ IsTraitPolygon(self)
    /\ op' = "area"
    /\ pc' = "panicked"
    /\ UNCHANGED <<self, rhs, intersects, ret>>

NextArea == PolygonArea \/ MultiPolygonArea \/ TraitArea

SpecArea == InitArea /\ [][NextArea]_vars

(***************************************************************************)
(* SpecMulti: a MultiPolygon is asked whether it contains a Point.         *)
(***************************************************************************)
\* The members of contains.rs's collection test: a rectangle with a
\* triangular hole and a rectangle away from it.
TestHoled ==
    Polygon(<<<<0, 0>>, <<5, 0>>, <<5, 6>>, <<0, 6>>, <<0, 0>>>>,
            << <<<<1, 1>>, <<4, 1>>, <<4, 4>>, <<1, 1>>>> >>)

TestAway ==
    Polygon(<<<<9, 0>>, <<14, 0>>, <<14, 4>>, <<9, 4>>, <<9, 0>>>>, <<>>)

\* Members: rectangles, the frame with a rectangular hole, the test's two.
MultiMembers ==
    {Polygon(e, <<>>) : e \in PlainRects}
        \cup {Polygon(Frame, <<h>>) : h \in PlainRects}
        \cup {TestHoled, TestAway}

TripleMembers ==
    {TestHoled, TestAway,
     Polygon(RectRing(0, 2, 0, 2, TRUE, 0), <<>>),
     Polygon(Frame, <<RectRing(0, 2, 0, 2, TRUE, 0)>>)}

\* Collections of up to three members, overlapping ones included: the code
\* does not ask for disjoint members.
PointMultiPolys ==
    {MultiPolygon(<<>>)}
        \cup {MultiPolygon(<<a>>) : a \in MultiMembers}
        \cup {MultiPolygon(<<a, b>>) : a \in MultiMembers, b \in TripleMembers}
        \cup {MultiPolygon(<<a, b, c>>) :
                 a \in TripleMembers, b \in TripleMembers, c \in TripleMembers}

InitMulti ==
    /\ self \in PointMultiPolys
    /\ rhs = None
    /\ intersects = None
    /\ op = None
    /\ pc = "idle"
    /\ ret = None

MultiPolygonContainsPoint ==
    /\ pc = "idle"
    /\ \E p \in Points :
          /\ rhs' = p
          /\ ret' = MultiPolygon_contains_Point(self, p)
    /\ op' = "contains_Point"
    /\ pc' = "done"
    /\ UNCHANGED <<self, intersects>>

NextMulti == MultiPolygonContainsPoint

SpecMulti == InitMulti /\ [][NextMulti]_vars

(***************************************************************************)
(* SpecRay: get_position is asked for the position of a Point relative to  *)
(* a LineString.                                                           *)
(***************************************************************************)
QuadVertices == {0, 2, 4} \X {0, 2, 4}

\* b and d lie strictly on opposite sides of the line through a and c.
OppositeSides(a, c, b, d) ==
    \/ Cross(a, c, b) > 0 /\ Cross(a, c, d) < 0
    \/ Cross(a, c, b) < 0 /\ Cross(a, c, d) > 0

\* Closed four-vertex rings that do not cross themselves, convex or not:
\* one diagonal splits the ring into two triangles.
Quads ==
    {r \in {<<a, b, c, d, a>> : a \in QuadVertices, b \in QuadVertices,
                               c \in QuadVertices, d \in QuadVertices} :
        \/ OppositeSides(r[1], r[3], r[2], r[4])
        \/ OppositeSides(r[2], r[4], r[1], r[3])}

RayRings == Rings \cup Quads

InitRay ==
    /\ self \in RayRings
    /\ rhs = None
    /\ intersects = None
    /\ op = None
    /\ pc = "idle"
    /\ ret = None

\* ret holds the returned position and, when the loop ran, its trace.
GetPosition ==
    /\ pc = "idle"
    /\ \E p \in Points :
          /\ rhs' = p
          /\ ret' = [position |-> get_position(p, self),
                     trace |-> IF Len(self) = 0 \/ LineString_contains_Point(self, p)
                               THEN <<>>
                               ELSE RayTrace(p, self)]
    /\ op' = "get_position"
    /\ pc' = "done"
    /\ UNCHANGED <<self, intersects>>

NextRay == GetPosition

SpecRay == InitRay /\ [][NextRay]_vars

(***************************************************************************)
(* SpecBox: a Bbox is asked whether it contains a Bbox or a Point, and for *)
(* its area.                                                               *)
(***************************************************************************)
Floats == {Num(n) : n \in 0..MaxBox} \cup {NaN}

Bboxes == [xmin : Floats, xmax : Floats, ymin : Floats, ymax : Floats]

InitBox ==
    /\ self \in Bboxes
    /\ rhs = None
    /\ intersects = None
    /\ op = None
    /\ pc = "idle"
    /\ ret = None

BboxContainsBbox ==
    /\ pc = "idle"
    /\ \E other \in Bboxes :
          /\ rhs' = other
          /\ ret' = Bbox_contains_Bbox(self, other)
    /\ op' = "contains_Bbox"
    /\ pc' = "done"
    /\ UNCHANGED <<self, intersects>>

BboxContainsPoint ==
    /\ pc = "idle"
    /\ \E p \in Floats \X Floats :
          /\ rhs' = p
          /\ ret' = Bbox_contains_Point(self, p)
    /\ op' = "contains_Point"
    /\ pc' = "done"
    /\ UNCHANGED <<self, intersects>>

BboxArea ==
    /\ pc = "idle"
    /\ ret' = Bbox_area(self)
    /\ op' = "area"
    /\ pc' = "done"
    /\ UNCHANGED <<self, rhs, intersects>>

NextBox == BboxContainsBbox \/ BboxContainsPoint \/ BboxArea

SpecBox == InitBox /\ [][NextBox]_vars

(***************************************************************************)
(* Reference geometry, independent of the code: what the claims speak of.  *)
(***************************************************************************)
\* A ring is closed: its first point is its last.
Closed(r) == Len(r) > 0 /\ r[1] = r[Len(r)]

\* p lies on the ring: it is a vertex or lies on an edge, whatever the
\* edge's direction.
OnRing(p, r) ==
    \/ \E k \in 1..Len(r) : r[k] = p
    \/ \E k \in Windows(r) : OnSegment(p, r[k], r[k + 1])

\* The edge a -> b crosses the horizontal ray from p to the right (even-odd
\* rule with the half-open interval on y, sides by the sign of Cross).
CrossesRay(p, a, b) ==
    \/ Y(a) <= Y(p) /\ Y(p) < Y(b) /\ Cross(a, b, p) > 0
    \/ Y(b) <= Y(p) /\ Y(p) < Y(a) /\ Cross(a, b, p) < 0

\* p is strictly inside the closed ring r (even-odd rule).
StrictlyInside(p, r) ==
    /\ ~OnRing(p, r)
    /\ Cardinality({k \in Windows(r) : CrossesRay(p, r[k], r[k + 1])}) % 2 = 1

\* The closed ring of an axis-aligned rectangle of positive width and
\* height, in either winding, from any corner.
RectangleRing(r) ==
    /\ Len(r) = 5
    /\ r[1] = r[5]
    /\ X(r[1]) # X(r[3])
    /\ Y(r[1]) # Y(r[3])
    /\ \/ Y(r[1]) = Y(r[2]) /\ X(r[2]) = X(r[3]) /\ Y(r[3]) = Y(r[4]) /\ X(r[4]) = X(r[1])
       \/ X(r[1]) = X(r[2]) /\ Y(r[2]) = Y(r[3]) /\ X(r[3]) = X(r[4]) /\ Y(r[4]) = Y(r[1])

\* The closed ring of a triangle whose vertices are not on one line.
TriangleRing(r) ==
    /\ Len(r) = 4
    /\ r[1] = r[4]
    /\ Cross(r[1], r[2], r[3]) # 0

\* A closed ring that bounds a region.
SimpleRing(r) == RectangleRing(r) \/ TriangleRing(r)

Done(o) == pc = "done" /\ op = o

(***************************************************************************)
(* Claims about Polygon contains Point (Spec).                             *)
(***************************************************************************)
\* C1: for every polygon whose exterior is a closed ring and every point p
\* on an edge of the exterior (a vertex, a point of an axis-aligned edge or
\* of a diagonal edge), Polygon.contains(p) is false.  Stated for the
\* exteriors that bound a region.
C1_BoundaryExclusive ==
    /\ Done("contains_Point")
    /\ Closed(self.exterior)
    /\ SimpleRing(self.exterior)
    /\ OnRing(rhs, self.exterior)
    => ret = FALSE

\* C2: a point strictly inside a closed hole ring, or on a closed hole
\* ring's boundary (vertex, axis-aligned or diagonal edge), is never
\* contained by the polygon.  Stated for the holes that bound a region.
C2_HoleExclusion ==
    Done("contains_Point") /\ Closed(self.exterior) =>
        \A k \in 1..Len(self.interiors) :
            /\ Closed(self.interiors[k])
            /\ SimpleRing(self.interiors[k])
            /\ \/ OnRing(rhs, self.interiors[k])
               \/ StrictlyInside(rhs, self.interiors[k])
            => ret = FALSE

\* The bounds of a ring.
RingXs(r) == {X(r[k]) : k \in 1..Len(r)}

RingYs(r) == {Y(r[k]) : k \in 1..Len(r)}

MinOf(S) == CHOOSE a \in S : \A b \in S : a <= b

MaxOf(S) == CHOOSE a \in S : \A b \in S : a >= b

InOpenBox(p, r) ==
    /\ MinOf(RingXs(r)) < X(p) /\ X(p) < MaxOf(RingXs(r))
    /\ MinOf(RingYs(r)) < Y(p) /\ Y(p) < MaxOf(RingYs(r))

\* C7: for a polygon without holes whose exterior is a closed axis-aligned
\* rectangle ring (xmin < xmax, ymin < ymax, either winding, any starting
\* corner), Polygon.contains(p) is true iff xmin < p.x < xmax and
\* ymin < p.y < ymax.
C7_RectangleReference ==
    Done("contains_Point") /\ self.interiors = <<>> /\ RectangleRing(self.exterior)
        => (ret <=> InOpenBox(rhs, self.exterior))

\* C7's case: a clockwise rectangle that does not start at its lower left
\* corner contains a point.
C7_Witness ==
    /\ Done("contains_Point")
    /\ self.interiors = <<>>
    /\ RectangleRing(self.exterior)
    /\ X(self.exterior[1]) = MaxOf(RingXs(self.exterior))
    /\ Y(self.exterior[1]) = MaxOf(RingYs(self.exterior))
    /\ Cross(self.exterior[1], self.exterior[2], self.exterior[3]) < 0
    /\ ret = TRUE

(***************************************************************************)
(* Claims about LineString contains Line (SpecWalk).                       *)
(***************************************************************************)
\* The k-th segment of the path holds p.
SegHas(ls, k, p) == OnSegment(p, ls[k], ls[k + 1])

\* The vertices a..b of the path are all collinear with the query segment
\* and the segments between them cover it: being consecutive and on one
\* line their union is one interval, which covers the query iff it holds
\* both of its endpoints.
CoveringRun(ls, line, a, b) ==
    /\ a < b
    /\ \A k \in a..b : Cross(line.start, line.end, ls[k]) = 0
    /\ \E k \in a..(b - 1) : SegHas(ls, k, line.start)
    /\ \E k \in a..(b - 1) : SegHas(ls, k, line.end)

\* The look_for with which iteration k of the scan starts.
RECURSIVE LookForAt(_, _, _)
LookForAt(ls, line, k) ==
    IF k = 1
    THEN <<>>
    ELSE WalkStep(ls[k - 1], ls[k], line, LookForAt(ls, line, k - 1)).look_for

\* C3: whenever a path has a run of consecutive segments whose vertices are
\* all collinear with the query segment and whose union covers the query,
\* LineString.contains(Line) returns true.
C3_Coverage ==
    Done("contains_Line") =>
        \A a \in 1..Len(self), b \in 1..Len(self) :
            CoveringRun(self, rhs, a, b) => ret = TRUE

\* C3's case: the run starts after the first segment, spans two segments of
\* which none covers the query alone, and the scan enters it with a
\* look_for that the first segment left behind.
C3_Witness ==
    /\ Done("contains_Line")
    /\ Len(self) = 4
    /\ CoveringRun(self, rhs, 2, 4)
    /\ ~CoveringRun(self, rhs, 2, 3)
    /\ ~CoveringRun(self, rhs, 3, 4)
    /\ ~CoveringRun(self, rhs, 1, 2)
    /\ LookForAt(self, rhs, 2) # <<>>
    /\ ret = TRUE

\* C4: LineString.contains(Line) returns true only if a path segment a holds
\* one endpoint of the query, a segment b >= a holds the other, and every
\* path vertex between them (the ends of segments a .. b-1) lies on the
\* query segment; hence not when an endpoint of the query is off the path.
C4_Soundness ==
    Done("contains_Line") /\ ret = TRUE =>
        /\ \E a \in Windows(self), b \in Windows(self) :
              /\ a <= b
              /\ \/ SegHas(self, a, rhs.start) /\ SegHas(self, b, rhs.end)
                 \/ SegHas(self, a, rhs.end) /\ SegHas(self, b, rhs.start)
              /\ \A k \in a..(b - 1) : OnSegment(self[k + 1], rhs.start, rhs.end)
        /\ \E k \in Windows(self) : SegHas(self, k, rhs.start)
        /\ \E k \in Windows(self) : SegHas(self, k, rhs.end)

\* C4's case: the scan returns true for a query that no single segment of
\* the path holds.
C4_Witness ==
    /\ Done("contains_Line")
    /\ ret = TRUE
    /\ rhs.start # rhs.end
    /\ ~\E k \in Windows(self) : SegHas(self, k, rhs.start) /\ SegHas(self, k, rhs.end)

(***************************************************************************)
(* Claims about Polygon area (SpecArea).                                   *)
(***************************************************************************)
\* The winding of a ring that bounds a region (such a ring is convex here,
\* so its first turn decides).
CounterClockwise(r) == SimpleRing(r) /\ Cross(r[1], r[2], r[3]) > 0

Clockwise(r) == SimpleRing(r) /\ Cross(r[1], r[2], r[3]) < 0

\* The lattice points of the ring's bounding box.
Lattice(r) ==
    (MinOf(RingXs(r))..MaxOf(RingXs(r))) \X (MinOf(RingYs(r))..MaxOf(RingYs(r)))

\* Twice the area the ring encloses, by counting lattice points (Pick's
\* theorem: area = interior + boundary / 2 - 1).
Enclosed2(r) ==
    2 * Cardinality({q \in Lattice(r) : StrictlyInside(q, r)})
        + Cardinality({q \in Lattice(r) : OnRing(q, r)}) - 2

RECURSIVE SumEnclosed2(_, _)
SumEnclosed2(rings, k) ==
    IF k > Len(rings) THEN 0 ELSE Enclosed2(rings[k]) + SumEnclosed2(rings, k + 1)

\* The hole lies inside the exterior.
HoleInside(h, ext) ==
    \A k \in 1..Len(h) : StrictlyInside(h[k], ext) \/ OnRing(h[k], ext)

\* Two convex rings do not overlap: an edge of one of them separates them.
SeparatedBy(a, b, h1, h2) ==
    \/ /\ \A k \in 1..Len(h1) : Cross(a, b, h1[k]) <= 0
       /\ \A k \in 1..Len(h2) : Cross(a, b, h2[k]) >= 0
    \/ /\ \A k \in 1..Len(h1) : Cross(a, b, h1[k]) >= 0
       /\ \A k \in 1..Len(h2) : Cross(a, b, h2[k]) <= 0

NotOverlapping(h1, h2) ==
    \/ \E k \in Windows(h1) : SeparatedBy(h1[k], h1[k + 1], h1, h2)
    \/ \E k \in Windows(h2) : SeparatedBy(h2[k], h2[k + 1], h1, h2)

\* A polygon on the lattice with a counter-clockwise exterior and holes
\* inside it that do not overlap.
WellFormed(poly) ==
    /\ CounterClockwise(poly.exterior)
    /\ \A k \in 1..Len(poly.interiors) :
          /\ SimpleRing(poly.interiors[k])
          /\ HoleInside(poly.interiors[k], poly.exterior)
    /\ \A k \in 1..Len(poly.interiors), m \in 1..Len(poly.interiors) :
          k < m => NotOverlapping(poly.interiors[k], poly.interiors[m])

\* What the exterior encloses less what the holes enclose.
NetArea(poly) ==
    Rat(Enclosed2(poly.exterior) - SumEnclosed2(poly.interiors, 1), 2)

\* C5 as stated: with a closed counter-clockwise exterior and closed holes
\* wound opposite to it (clockwise), inside it and not overlapping,
\* Polygon.area() is the exterior's enclosed area minus the holes'.
C5_OppositeWinding ==
    /\ Done("area")
    /\ IsPolygon(self)
    /\ WellFormed(self)
    /\ \A k \in 1..Len(self.interiors) : Clockwise(self.interiors[k])
    => ret = NetArea(self)

\* C5 as amended: with a closed counter-clockwise exterior and closed holes
\* wound the same way as the exterior (counter-clockwise), inside it and
\* not overlapping, Polygon.area() is the exterior's enclosed area minus
\* the holes'.
C5_SameWinding ==
    /\ Done("area")
    /\ IsPolygon(self)
    /\ WellFormed(self)
    /\ \A k \in 1..Len(self.interiors) : CounterClockwise(self.interiors[k])
    => ret = NetArea(self)

\* C5's case: the area of a polygon with two holes wound as the exterior.
C5_Witness ==
    /\ Done("area")
    /\ IsPolygon(self)
    /\ WellFormed(self)
    /\ Len(self.interiors) = 2
    /\ \A k \in 1..Len(self.interiors) : CounterClockwise(self.interiors[k])
    /\ ret = NetArea(self)

\* Half the signed shoelace sum over the consecutive vertex pairs of a
\* ring, 0 for a ring of zero or one points.
RingArea(r) ==
    LET term(k) == X(r[k]) * Y(r[k + 1]) - X(r[k + 1]) * Y(r[k])
        RECURSIVE SumOver(_)
        SumOver(S) ==
            IF S = {}
            THEN 0
            ELSE LET k == CHOOSE m \in S : TRUE
                 IN  term(k) + SumOver(S \ {k})
    IN  IF Len(r) <= 1 THEN RatOfInt(0) ELSE Rat(SumOver(Windows(r)), 2)

RECURSIVE SumRingArea(_, _)
SumRingArea(rings, k) ==
    IF k > Len(rings)
    THEN RatOfInt(0)
    ELSE RatAdd(RingArea(rings[k]), SumRingArea(rings, k + 1))

Width(r) == MaxOf(RingXs(r)) - MinOf(RingXs(r))

Height(r) == MaxOf(RingYs(r)) - MinOf(RingYs(r))

\* C6: Polygon.area() is ringArea(exterior) minus the sum over the holes of
\* ringArea(hole), ringArea being 0 for a ring of zero or one points and
\* else half the shoelace sum over consecutive vertex pairs only; a closed
\* counter-clockwise w-by-h rectangle has area w*h, and the 10 x 10
\* exterior with two unit holes wound as the exterior has area 98.
C6_AreaFormula ==
    Done("area") /\ IsPolygon(self) =>
        /\ ret = RatSub(RingArea(self.exterior), SumRingArea(self.interiors, 1))
        /\ Len(self.exterior) <= 1 /\ self.interiors = <<>> => ret = RatOfInt(0)
        /\ RectangleRing(self.exterior) /\ CounterClockwise(self.exterior)
              /\ self.interiors = <<>>
              => ret = RatOfInt(Width(self.exterior) * Height(self.exterior))
        /\ self = TestInner => ret = RatOfInt(98)

\* C6's case: the area of an open path, whose last point is not its first.
C6_Witness ==
    /\ Done("area")
    /\ IsPolygon(self)
    /\ Len(self.exterior) = 2
    /\ ~Closed(self.exterior)
    /\ ret # RatOfInt(0)

(***************************************************************************)
(* Claims about Polygon contains Line and LineString (SpecSeg).            *)
(***************************************************************************)
\* The vertices of the segment or path that was asked about.
QueryVertices ==
    IF op = "contains_Line" THEN <<rhs.start, rhs.end>> ELSE rhs

\* The rings of a polygon, the exterior first.
RingsOf(poly) == <<poly.exterior>> \o poly.interiors

\* The vertices, not all the same point, all lie on one edge of a ring of
\* the polygon that bounds a region: the segment or path lies along the
\* polygon's boundary.
AlongBoundary(pts, poly) ==
    /\ \E m \in 1..Len(pts) : pts[m] # pts[1]
    /\ \E n \in 1..Len(RingsOf(poly)) :
          LET r == RingsOf(poly)[n]
          IN  /\ SimpleRing(r)
              /\ \E k \in Windows(r) :
                    \A m \in 1..Len(pts) : OnSegment(pts[m], r[k], r[k + 1])

\* q is outside the exterior ring or strictly inside a hole.
OutsideOrInHole(q, poly) ==
    \/ /\ SimpleRing(poly.exterior)
       /\ ~OnRing(q, poly.exterior)
       /\ ~StrictlyInside(q, poly.exterior)
    \/ \E k \in 1..Len(poly.interiors) :
          SimpleRing(poly.interiors[k]) /\ StrictlyInside(q, poly.interiors[k])

\* The first sentence of C8: whatever the intersection tests answer, the
\* polygon does not contain a segment or path one of whose vertices it does
\* not contain.
VerticesGate ==
    Done("contains_Line") \/ Done("contains_LineString") =>
        ((\E m \in 1..Len(QueryVertices) :
              ~Polygon_contains_Point(self, QueryVertices[m])) => ret = FALSE)

\* C8: whatever the intersection tests answer, Polygon.contains(Line) and
\* Polygon.contains(LineString) are false if an endpoint or vertex is not
\* contained by the polygon; consequently a path or segment that lies
\* along the polygon's boundary (exterior or hole), or has a vertex outside
\* the exterior or inside a hole, is not contained.
C8_VerticesContained ==
    Done("contains_Line") \/ Done("contains_LineString") =>
        /\ (\E m \in 1..Len(QueryVertices) :
               ~Polygon_contains_Point(self, QueryVertices[m])) => ret = FALSE
        /\ (\E m \in 1..Len(QueryVertices) :
               OutsideOrInHole(QueryVertices[m], self)) => ret = FALSE
        /\ AlongBoundary(QueryVertices, self) => ret = FALSE

(***************************************************************************)
(* Claims about every operation (SpecArea).                                *)
(***************************************************************************)
\* C9: no area or contains operation panics or signals an error: every
\* input yields a result, for every implementation of Area and Contains,
\* the Area implementation for PolygonTrait geometries included.
C9_Totality == pc # "panicked"

(***************************************************************************)
(* Claims about Bbox contains Bbox (SpecBox).                              *)
(***************************************************************************)
HasNaN(bbox) == bbox.xmin.nan \/ bbox.xmax.nan \/ bbox.ymin.nan \/ bbox.ymax.nan

\* C10 as stated: for all boxes A and B, whatever the order of their min
\* and max bounds, A.contains(B) and B.contains(A) both hold iff A and B
\* have identical bounds; so every box contains itself, and A.contains(B)
\* with A # B implies not B.contains(A).
C10_ReflexiveAntisymmetric ==
    Done("contains_Bbox") =>
        /\ (ret /\ Bbox_contains_Bbox(rhs, self)) <=> self = rhs
        /\ self = rhs => ret = TRUE
        /\ ret /\ self # rhs => ~Bbox_contains_Bbox(rhs, self)

\* C10 as amended: the same for all boxes A and B none of whose bounds is
\* NaN; a box with a NaN bound contains no box and is contained in none,
\* itself included.
C10_ReflexiveAntisymmetricNoNaN ==
    Done("contains_Bbox") =>
        /\ ~HasNaN(self) /\ ~HasNaN(rhs) =>
              /\ (ret /\ Bbox_contains_Bbox(rhs, self)) <=> self = rhs
              /\ self = rhs => ret = TRUE
              /\ ret /\ self # rhs => ~Bbox_contains_Bbox(rhs, self)
        /\ HasNaN(self) \/ HasNaN(rhs) => ret = FALSE

\* C10's case: a box whose min bounds exceed its max bounds is asked
\* whether it contains itself, and does.
C10_Witness ==
    /\ Done("contains_Bbox")
    /\ ~HasNaN(self)
    /\ self = rhs
    /\ self.xmin.v > self.xmax.v
    /\ self.ymin.v > self.ymax.v
    /\ ret = TRUE


(***************************************************************************)
(* Claims about the direction of the path scan (SpecScan).                 *)
(***************************************************************************)
\* The sequence s read backwards.
Reverse(s) == [k \in 1..Len(s) |-> s[Len(s) + 1 - k]]

\* The query segment with its start and end swapped.
Swapped(line) == Line(line.end, line.start)

\* C14: the result of LineString.contains(Line) is unchanged when the query
\* segment's start and end are swapped, and unchanged when the path's
\* vertex sequence is reversed, for every path and every query segment.
C14_DirectionIndependent ==
    Done("contains_Line") =>
        /\ ret = LineString_contains_Line(self, Swapped(rhs))
        /\ ret = LineString_contains_Line(Reverse(self), rhs)

\* A path of several segments, not the same read backwards, on which a
\* proper query segment is found although no single segment of the path
\* holds both of its ends.
C14_Witness ==
    /\ Done("contains_Line")
    /\ ret = TRUE
    /\ rhs.start # rhs.end
    /\ Len(self) >= 3
    /\ Reverse(self) # self
    /\ \A k \in Windows(self) :
          ~Line_contains_Line(Line(self[k], self[k + 1]), rhs)


(***************************************************************************)
(* Claims about the area of a MultiPolygon (SpecArea).                     *)
(***************************************************************************)
\* The sum of the members' areas, taken from the last member to the first.
RECURSIVE SumOfAreas(_)
SumOfAreas(polys) ==
    IF Len(polys) = 0
    THEN RatOfInt(0)
    ELSE RatAdd(Polygon_area(polys[Len(polys)]),
                SumOfAreas(SubSeq(polys, 1, Len(polys) - 1)))

\* The members in the order given by the permutation f.
Reordered(polys, f) == [k \in 1..Len(polys) |-> polys[f[k]]]

\* C12: MultiPolygon.area() equals the sum of Polygon.area() over its
\* members (0 for an empty collection), so it is independent of the order
\* of the members and equals the sum of the areas of any split of the
\* collection into two sub-collections.
C12_Additivity ==
    Done("area") /\ IsMultiPolygon(self) =>
        LET polys == self.polygons
            n == Len(polys)
        IN  /\ ret = SumOfAreas(polys)
            /\ n = 0 => ret = RatOfInt(0)
            /\ \A f \in Permutations(1..n) :
                  ret = MultiPolygon_area(MultiPolygon(Reordered(polys, f)))
            /\ \A k \in 0..n :
                  ret = RatAdd(MultiPolygon_area(MultiPolygon(SubSeq(polys, 1, k))),
                               MultiPolygon_area(MultiPolygon(SubSeq(polys, k + 1, n))))

\* The collection of area.rs's test, three different members of areas 100,
\* 1 and 1: its area is 102.
C12_Witness ==
    /\ Done("area")
    /\ IsMultiPolygon(self)
    /\ Len(self.polygons) = 3
    /\ self.polygons[1] # self.polygons[2]
    /\ self.polygons[2] # self.polygons[3]
    /\ self.polygons[1] # self.polygons[3]
    /\ Polygon_area(self.polygons[1]) = RatOfInt(100)
    /\ ret = RatOfInt(102)


(***************************************************************************)
(* Claims about MultiPolygon contains Point (SpecMulti).                   *)
(***************************************************************************)
\* p lies strictly inside the k-th hole of poly, an axis-aligned rectangle
\* or a triangle.
InHole(p, poly, k) ==
    /\ SimpleRing(poly.interiors[k])
    /\ StrictlyInside(p, poly.interiors[k])

\* C11: MultiPolygon.contains(p) is true iff at least one member polygon
\* contains p, the members' holes respected: a member does not contain a
\* point strictly inside one of its holes.  An empty collection contains
\* no point, and the result does not depend on the order of the members.
C11_AnyMember ==
    Done("contains_Point") =>
        LET polys == self.polygons
            n == Len(polys)
        IN  /\ ret = (\E k \in 1..n : Polygon_contains_Point(polys[k], rhs))
            /\ n = 0 => ret = FALSE
            /\ (\A k \in 1..n : \E h \in 1..Len(polys[k].interiors) :
                    InHole(rhs, polys[k], h))
               => ret = FALSE
            /\ \A f \in Permutations(1..n) :
                  ret = MultiPolygon_contains_Point(
                            MultiPolygon(Reordered(polys, f)), rhs)

\* The point is in a hole of the first member and in the second member:
\* the collection contains it.
C11_Witness ==
    /\ Done("contains_Point")
    /\ Len(self.polygons) >= 2
    /\ \E h \in 1..Len(self.polygons[1].interiors) :
          InHole(rhs, self.polygons[1], h)
    /\ ~Polygon_contains_Point(self.polygons[1], rhs)
    /\ Polygon_contains_Point(self.polygons[2], rhs)
    /\ ret = TRUE


(***************************************************************************)
(* Claims about the ray casting loop of get_position (SpecRay).            *)
(***************************************************************************)
\* The point of abscissa x (a quotient) and ordinate y lies on the line
\* through a and b.
OnLineAt(x, y, a, b) ==
    (X(b) - X(a)) * (y - Y(a)) * x[2] = (x[1] - X(a) * x[2]) * (Y(b) - Y(a))

\* The crossings the k-th iteration added.
Added(k) == ret.trace[k].after.crossings - ret.trace[k].before.crossings

\* C15: in every iteration that reaches the test p.x <= xints the current
\* edge has ps0.y # ps1.y, so xints was computed from the current edge in
\* that iteration (it is where the edge's line meets the ray's height) and
\* the division has no zero denominator; the result does not depend on the
\* value xints held before; horizontal edges never contribute a crossing.
C15_XintsFresh ==
    Done("get_position") =>
        /\ \A k \in DOMAIN ret.trace :
              /\ ret.trace[k].reached =>
                    /\ Y(self[k]) # Y(self[k + 1])
                    /\ OnLineAt(ret.trace[k].after.xints, Y(rhs),
                                self[k], self[k + 1])
              /\ ~ret.trace[k].reached => ret.trace[k].after = ret.trace[k].before
              /\ Y(self[k]) = Y(self[k + 1]) => Added(k) = 0
        /\ ret.trace # <<>> =>
              \A v \in {RatOfInt(-9), RatOfInt(9)} :
                  RayLoop(rhs, self, 1, [xints |-> v, crossings |-> 0]).crossings
                      = ret.trace[Len(self) - 1].after.crossings

\* A horizontal edge at the ray's height, not to the left of the point,
\* met when an earlier edge has left its value in xints.
C15_Witness ==
    /\ Done("get_position")
    /\ \E k \in DOMAIN ret.trace :
          /\ Y(self[k]) = Y(self[k + 1])
          /\ Y(self[k]) = Y(rhs)
          /\ X(rhs) <= Max(X(self[k]), X(self[k + 1]))
          /\ ret.trace[k].before.xints # RatOfInt(0)
          /\ ~ret.trace[k].reached


\* p is strictly inside the triangle a, b, c: strictly on the same side of
\* its three edges.
InsideTriangle(p, a, b, c) ==
    \/ Cross(a, b, p) > 0 /\ Cross(b, c, p) > 0 /\ Cross(c, a, p) > 0
    \/ Cross(a, b, p) < 0 /\ Cross(b, c, p) < 0 /\ Cross(c, a, p) < 0

\* p is strictly inside the four-vertex ring a, b, c, d that a diagonal
\* splits into two triangles: inside one of them or on the diagonal between
\* its ends.
InsideQuad(p, a, b, c, d) ==
    IF OppositeSides(a, c, b, d)
    THEN \/ InsideTriangle(p, a, b, c)
         \/ InsideTriangle(p, a, c, d)
         \/ OnSegment(p, a, c) /\ p # a /\ p # c
    ELSE \/ InsideTriangle(p, a, b, d)
         \/ InsideTriangle(p, b, c, d)
         \/ OnSegment(p, b, d) /\ p # b /\ p # d

QuadRing(r) ==
    /\ Len(r) = 5
    /\ r[1] = r[5]
    /\ \/ OppositeSides(r[1], r[3], r[2], r[4])
       \/ OppositeSides(r[2], r[4], r[1], r[3])

\* A closed ring that does not cross itself, a triangle or a four-vertex
\* ring, with an edge that is neither horizontal nor vertical.
DiagonalRing(r) ==
    /\ TriangleRing(r) \/ QuadRing(r)
    /\ \E k \in Windows(r) : X(r[k]) # X(r[k + 1]) /\ Y(r[k]) # Y(r[k + 1])

InsideRing(p, r) ==
    IF Len(r) = 4
    THEN InsideTriangle(p, r[1], r[2], r[3])
    ELSE InsideQuad(p, r[1], r[2], r[3], r[4])

\* The edge that ends at the k-th vertex of a closed ring, and the vertex
\* it comes from.
EdgeInto(r, k) == IF k = 1 THEN Len(r) - 1 ELSE k - 1

\* The k-th vertex is on the ray from p to the right.
OnRay(p, r, k) == Y(r[k]) = Y(p) /\ X(r[k]) > X(p)

\* The two edges at the k-th vertex leave it to opposite vertical sides, or
\* to the same one.
OppositeVertical(r, k) ==
    LET u == Y(r[EdgeInto(r, k)]) - Y(r[k])
        w == Y(r[k + 1]) - Y(r[k])
    IN  (u > 0 /\ w < 0) \/ (u < 0 /\ w > 0)

SameVertical(r, k) ==
    LET u == Y(r[EdgeInto(r, k)]) - Y(r[k])
        w == Y(r[k + 1]) - Y(r[k])
    IN  (u > 0 /\ w > 0) \/ (u < 0 /\ w < 0)

\* The crossings counted at the k-th vertex: those of its two edges.
AddedAt(r, k) == Added(EdgeInto(r, k)) + Added(k)

\* C13: for a closed ring that does not cross itself and has diagonal edges
\* and a point p on none of its edges, get_position returns Inside iff p is
\* strictly inside the ring, also when p.y is the y of ring vertices; a
\* vertex on the ray counts one crossing when its two edges lie on opposite
\* vertical sides of the ray and none or two when they lie on the same
\* side.
C13_SharedVertices ==
    /\ Done("get_position")
    /\ DiagonalRing(self)
    /\ ~OnRing(rhs, self)
    => /\ (ret.position = "Inside") = InsideRing(rhs, self)
       /\ ret.position \in {"Inside", "Outside"}
       /\ \A k \in 1..(Len(self) - 1) :
             OnRay(rhs, self, k) =>
                /\ OppositeVertical(self, k) => AddedAt(self, k) = 1
                /\ SameVertical(self, k) => AddedAt(self, k) \in {0, 2}

\* The point is inside and the ray passes through a vertex whose edges lie
\* on opposite sides of it.
C13_Witness ==
    /\ Done("get_position")
    /\ DiagonalRing(self)
    /\ ~OnRing(rhs, self)
    /\ ret.position = "Inside"
    /\ \E k \in 1..(Len(self) - 1) :
          OnRay(rhs, self, k) /\ OppositeVertical(self, k)

====
